---- MODULE Spec2Model ----
(***************************************************************************)
(* Model of the lenslocked.com account store (models/users.go) and of the  *)
(* rand package that mints remember tokens.                                *)
(*                                                                         *)
(* The state is the users table in PostgreSQL and the position of every    *)
(* caller inside the handler it runs.  A handler is run statement by       *)
(* statement, as gorm sends them: INSERT and COMMIT (db.Create), UPDATE,   *)
(* COMMIT and the FirstOrCreate fallback SELECT, INSERT, COMMIT (db.Save), *)
(* the soft-delete UPDATE and COMMIT (db.Delete on a model with            *)
(* DeletedAt), SELECT ... LIMIT 1 (db.First), and the lookups, DROP TABLE, *)
(* CREATE TABLE, ALTER TABLE and CREATE INDEX of db.DropTableIfExists and  *)
(* db.AutoMigrate, for the one table of userGorm and for the two tables of *)
(* Services.  users.go holds no lock, so the statements of different *)
(* callers interleave freely; what orders them is PostgreSQL: a row        *)
(* written by a transaction is seen by the others at its COMMIT, a         *)
(* statement that needs a row or an index key an open transaction wrote    *)
(* waits for that COMMIT, and DROP TABLE and CREATE INDEX wait for every   *)
(* open transaction on the table.  The sequence is outside transactions:   *)
(* a value drawn is gone at once.                                          *)
(*                                                                         *)
(* Spec runs the handlers with one caller, SpecConc with two.  The backend *)
(* is assumed to be reachable, so the only statement errors are constraint *)
(* violations and statements that meet a missing or an existing relation.  *)
(* BEGIN, and the ROLLBACK after a failed statement, change nothing a      *)
(* caller can see and are part of the statement's step.  The service is    *)
(* modelled between its construction and Close.  CreatedAt/UpdatedAt are   *)
(* not modelled: no handler reads them.                                    *)
(***************************************************************************)
EXTENDS Integers, Sequences, FiniteSets, TLC

VARIABLES
    schema,    \* the relations that exist: the table users, its two indexes,
               \* and the table stocklists
    rows,      \* the committed rows of users: id -> row, soft-deleted included
    seq,       \* last value handed out by the users_id_seq sequence
    made,      \* history: id -> the password its Create was given, for the rows
               \* that db.Create inserted
    pc,        \* position of each caller in its handler
    req,       \* the call of each caller, in flight or returned, and its outcome
    race,      \* history: email two Creates in flight both ask for, or NoEmail
    tok        \* rand package: the last token call and its outcome

vars == <<schema, rows, seq, made, pc, req, race, tok>>

-----------------------------------------------------------------------------
(* Bounds and input sets *)

MaxID == 2

IDs == 1..MaxID
\* uint: an identifier argument is never negative
IDArgs == 0..MaxID

Names == {"ann", "bob"}
Emails == {"a@x.io", "b@x.io"}
Passwords == {"pw1", "pw2"}
Salts == {"s1", "s2"}

-----------------------------------------------------------------------------
(* Errors *)

nil == "nil"
ErrNotFound == "models: resource not found"
ErrInvalidID == "models: ID provided was invalid"
ErrInvalidPassword == "models: incorrect password provided"
\* errors.New("Invalid ID") in ByID: a fresh value, equal to no sentinel
ErrByIDInvalid == "Invalid ID"
\* errors of the collaborators, handed through unchanged
ErrRecordNotFound == "record not found"
ErrUniqueEmail == "pq: duplicate key value violates unique constraint uix_users_email"
ErrUsersPkey == "pq: duplicate key value violates unique constraint users_pkey"
ErrMismatchedHashAndPassword == "crypto/bcrypt: hashedPassword is not the hash of the given password"
ErrHashTooShort == "crypto/bcrypt: hashedSecret too short to be a bcrypted password"
ErrNoTable == "pq: relation users does not exist"
ErrTableExists == "pq: relation users already exists"
ErrColumnExists(col) ==
    CASE col = "id" -> "pq: column id of relation users already exists"
      [] col = "created_at" -> "pq: column created_at of relation users already exists"
      [] col = "updated_at" -> "pq: column updated_at of relation users already exists"
      [] col = "deleted_at" -> "pq: column deleted_at of relation users already exists"
      [] col = "name" -> "pq: column name of relation users already exists"
      [] col = "email" -> "pq: column email of relation users already exists"
      [] col = "password_hash" -> "pq: column password_hash of relation users already exists"
ErrIndexExists == "pq: relation idx_users_deleted_at already exists"
ErrUniqueExists == "pq: relation uix_users_email already exists"
ErrCreateIndex == "pq: could not create unique index uix_users_email"
ErrDropNoTable == "pq: table users does not exist"
ErrDropNoStocklists == "pq: table stocklists does not exist"
\* gorm.Errors of the two: the messages joined by "; "
ErrDropNeither == "pq: table users does not exist; pq: table stocklists does not exist"
ErrStocklistsExist == "pq: relation stocklists already exists"
\* crypto/rand could not supply bytes
ErrEntropy == "crypto/rand: entropy source failed"

-----------------------------------------------------------------------------
(* bcrypt.  A hash is the string "$2a$10$" salt digest, kept as its three   *)
(* parts; the empty string is the empty sequence.  Passwords stay within   *)
(* bcrypt's input length.  The salt is drawn from crypto/rand, which may   *)
(* fail: NoSalt.                                                           *)

NoHash == <<>>
NoSalt == ""

GenerateFromPassword(password, salt) ==
    IF salt = NoSalt
    THEN [hash |-> NoHash, err |-> ErrEntropy]
    ELSE [hash |-> <<"$2a$10$", salt, password>>, err |-> nil]

CompareHashAndPassword(hash, password) ==
    IF Len(hash) < 3 THEN ErrHashTooShort
    ELSE IF hash[3] = password THEN nil ELSE ErrMismatchedHashAndPassword

-----------------------------------------------------------------------------
(* The User record, the users table and its schema *)

\* var user User
ZeroUser == [ID |-> 0, Name |-> "", Email |-> "", Password |-> "",
             PasswordHash |-> NoHash, DeletedAt |-> FALSE]

\* a nil *User is <<>>, a pointer to u is <<u>>
NilUser == <<>>

\* the columns of a row; Password has gorm:"-" and is no column
RowOf(u) == [Name |-> u.Name, Email |-> u.Email,
             PasswordHash |-> u.PasswordHash, DeletedAt |-> u.DeletedAt]

\* a row scanned into a zero User
UserOf(id, r) == [ID |-> id, Name |-> r.Name, Email |-> r.Email, Password |-> "",
                  PasswordHash |-> r.PasswordHash, DeletedAt |-> r.DeletedAt]

\* a row scanned into dst: every column is set, Password is no column and
\* keeps what dst held
ScanInto(dst, id, r) == [UserOf(id, r) EXCEPT !.Password = dst.Password]

\* the table right after CREATE TABLE
EmptyTable == [i \in {} |-> RowOf(ZeroUser)]

\* the relations AutoMigrate makes for User: the table, the index of
\* gorm.Model's DeletedAt, and the unique index of Email
Table == "users"
DeletedAtIndex == "idx_users_deleted_at"
UniqueIndex == "uix_users_email"
FullSchema == {Table, DeletedAtIndex, UniqueIndex}

\* the table of Stocklist, the second model Services migrates and drops.
\* Stocklist is declared outside the files at hand: of its table only the
\* relation is modelled, not its columns and indexes
Stocklists == "stocklists"

\* the fields of User in the order gorm walks them: those of gorm.Model,
\* then Name, Email, Password, PasswordHash
Fields == <<"id", "created_at", "updated_at", "deleted_at",
            "name", "email", "password", "password_hash">>

\* Password has gorm:"-": it is looked up like the others, but is no column
\* and is never added
IsNormal(field) == field # "password"

\* rows a query sees: gorm adds deleted_at IS NULL
Live(t) == {id \in DOMAIN t : ~t[id].DeletedAt}

Min(S) == CHOOSE x \in S : \A y \in S : x <= y

\* the unique index on email covers every row, soft-deleted rows included
EmailTaken(t, email, except) ==
    \E id \in DOMAIN t : id # except /\ t[id].Email = email

\* no two rows hold one email: CREATE UNIQUE INDEX can be built
IndexBuildable(t) == \A i, j \in DOMAIN t : i # j => t[i].Email # t[j].Email

-----------------------------------------------------------------------------
(* The statements gorm sends to PostgreSQL.  A writing statement yields the *)
(* rows it wrote, write: id -> row, which its COMMIT publishes.             *)

NoWrite == EmptyTable

\* the table once the rows of write are committed
Publish(t, write) ==
    [i \in DOMAIN t \cup DOMAIN write |-> IF i \in DOMAIN write THEN write[i] ELSE t[i]]

\* the primary key of an INSERT: a zero key is left to the column default
\* nextval('users_id_seq'), a non-zero one is inserted as given
InsertKey(s, u) == IF u.ID = 0 THEN s + 1 ELSE u.ID

\* the sequence after the INSERT evaluated its key: a value drawn stays
\* drawn, also when the insert then fails
Nextval(s, u) == IF u.ID = 0 THEN s + 1 ELSE s

\* an INSERT that checks the primary key alone
SqlInsertNoUniqueIndex(sch, t, id, u) ==
    IF id \in DOMAIN t
    THEN [write |-> NoWrite, err |-> ErrUsersPkey]
    ELSE [write |-> [i \in {id} |-> RowOf(u)], err |-> nil]

\* INSERT INTO users (...) VALUES (...) RETURNING id, once its key id is
\* known: the row goes in unless the primary key or, where the unique index
\* exists, the email is held by a row
SqlInsert(sch, t, id, u) ==
    IF id \in DOMAIN t
    THEN [write |-> NoWrite, err |-> ErrUsersPkey]
    ELSE IF UniqueIndex \in sch /\ EmailTaken(t, u.Email, 0)
    THEN [write |-> NoWrite, err |-> ErrUniqueEmail]
    ELSE [write |-> [i \in {id} |-> RowOf(u)], err |-> nil]

\* an UPDATE without its primary key condition
SqlUpdateAllRows(sch, t, u) ==
    [write |-> [i \in Live(t) |-> RowOf(u)], affected |-> Cardinality(Live(t)),
     err |-> nil]

\* UPDATE users SET <every column> WHERE deleted_at IS NULL AND id = u.ID
SqlUpdate(sch, t, u) ==
    IF u.ID \notin Live(t)
    THEN [write |-> NoWrite, affected |-> 0, err |-> nil]
    ELSE IF UniqueIndex \in sch /\ EmailTaken(t, u.Email, u.ID)
    THEN [write |-> NoWrite, affected |-> 0, err |-> ErrUniqueEmail]
    ELSE [write |-> [i \in {u.ID} |-> RowOf(u)], affected |-> 1, err |-> nil]

\* the soft delete without its primary key condition
SqlSoftDeleteAll(t, id) ==
    [i \in Live(t) |-> [t[i] EXCEPT !.DeletedAt = TRUE]]

\* UPDATE users SET deleted_at = now() WHERE deleted_at IS NULL AND id = id
SqlSoftDelete(t, id) ==
    [i \in Live(t) \cap {id} |-> [t[i] EXCEPT !.DeletedAt = TRUE]]

\* SELECT * FROM users WHERE deleted_at IS NULL AND <cond> ORDER BY id LIMIT 1,
\* scanned into dst; match is the set of ids <cond> selects
GormFirst(sch, t, match, dst) ==
    LET hit == match \cap Live(t)
    IN  IF Table \notin sch THEN [user |-> dst, err |-> ErrNoTable]
        ELSE IF hit = {} THEN [user |-> dst, err |-> ErrRecordNotFound]
        ELSE [user |-> ScanInto(dst, Min(hit), t[Min(hit)]), err |-> nil]

-----------------------------------------------------------------------------
(* users.go: the handlers that are one SELECT and local code *)

\* func first(db, dst)
first(sch, t, match, dst) ==
    LET r == GormFirst(sch, t, match, dst)
    IN  IF r.err = ErrRecordNotFound
        THEN [user |-> r.user, err |-> ErrNotFound]
        ELSE r

\* func (ug *userGorm) ByID(id uint)
ByID(sch, t, id) ==
    IF id <= 0
    THEN [user |-> NilUser, err |-> ErrByIDInvalid]
    ELSE LET r == first(sch, t, {id}, ZeroUser)
         IN  IF r.err # nil
             THEN [user |-> NilUser, err |-> r.err]
             ELSE [user |-> <<r.user>>, err |-> nil]

\* func (ug *userGorm) ByEmail(email string): returns &user with the error
ByEmail(sch, t, email) ==
    LET r == first(sch, t, {i \in DOMAIN t : t[i].Email = email}, ZeroUser)
    IN  [user |-> <<r.user>>, err |-> r.err]

\* Authenticate without the ErrMismatchedHashAndPassword case of its switch
AuthenticateNoMismatchCase(sch, t, email, password) ==
    LET found == ByEmail(sch, t, email)
    IN  IF found.err # nil
        THEN [user |-> NilUser, err |-> found.err]
        ELSE LET err == CompareHashAndPassword(found.user[1].PasswordHash, password)
             IN  IF err = nil THEN [user |-> found.user, err |-> nil]
                 ELSE [user |-> NilUser, err |-> err]

\* func (us *UserService) Authenticate(email, password string)
Authenticate(sch, t, email, password) ==
    LET found == ByEmail(sch, t, email)
    IN  IF found.err # nil
        THEN [user |-> NilUser, err |-> found.err]
        ELSE LET err == CompareHashAndPassword(found.user[1].PasswordHash, password)
             IN  IF err = nil THEN [user |-> found.user, err |-> nil]
                 ELSE IF err = ErrMismatchedHashAndPassword
                 THEN [user |-> NilUser, err |-> ErrInvalidPassword]
                 ELSE [user |-> NilUser, err |-> err]

\* Create that forgets user.PasswordHash = string(hashedBytes)
SetHashNoHash(user, hashedBytes) == [user EXCEPT !.Password = ""]

\* Create that forgets user.Password = ""
SetHashKeepsPlaintext(user, hashedBytes) == [user EXCEPT !.PasswordHash = hashedBytes]

\* user.PasswordHash = string(hashedBytes); user.Password = ""
SetHash(user, hashedBytes) ==
    [user EXCEPT !.PasswordHash = hashedBytes, !.Password = ""]

-----------------------------------------------------------------------------
(* Callers.  pc is "idle" before the first call and "done" after a call     *)
(* returned; every other value is the statement the caller sends next.     *)

\* op: the handler the caller is in; in: the record handed to it; id,
\* email, password: the other arguments; salt: what bcrypt drew; out: the
\* *User returned; user: the handed record as the handler has set it so
\* far; write: the rows the open transaction wrote; field: the field
\* AutoMigrate looks up next; err: the error
NoReq == [op |-> "none", in |-> ZeroUser, id |-> 0, email |-> "", password |-> "",
          salt |-> NoSalt, out |-> NilUser, user |-> ZeroUser, write |-> NoWrite,
          field |-> 1, err |-> nil]

NoEmail == ""

Others(c) == DOMAIN pc \ {c}

Ready(c) == pc[c] \in {"idle", "done"}

\* c is inside a transaction that has touched the table
InTxn(c) == pc[c] \in {"insertrow", "commit"}

\* the rows c has written and not yet committed
Pending(c) == IF pc[c] = "commit" THEN req[c].write ELSE NoWrite

\* primary keys and emails (as committed and as written) of the rows the
\* open transactions of the other callers wrote
HeldIDs(c) == UNION {DOMAIN Pending(d) : d \in Others(c)}
HeldEmails(c) ==
    UNION {{Pending(d)[k].Email : k \in DOMAIN Pending(d)}
             \cup {rows[k].Email : k \in DOMAIN Pending(d) \cap DOMAIN rows}
           : d \in Others(c)}

\* sequence values the other callers' INSERTs not yet sent will still draw
PendingDraws(c) ==
    Cardinality({d \in Others(c) : pc[d] = "insert" /\ req[d].user.ID = 0})

\* another Create of this email is in flight, and no row holds the email
Racing(c, email) ==
    /\ UniqueIndex \in schema
    /\ ~EmailTaken(rows, email, 0)
    /\ \E d \in Others(c) : /\ pc[d] \in {"insert", "insertrow", "commit"}
                            /\ req[d].op = "Create"
                            /\ req[d].user.Email = email

\* c returns with err
Return(c, err) ==
    /\ pc' = [pc EXCEPT ![c] = "done"]
    /\ req' = [req EXCEPT ![c].err = err, ![c].write = NoWrite, ![c].field = 1]

\* func (ug *userGorm) Create(user *User) up to db.Create: hash, set
\* PasswordHash, clear Password; a failed hashing returns at once
CallCreate(c, users, salts) ==
    \E user \in users, salt \in salts :
        /\ Ready(c)
        /\ seq + PendingDraws(c) < MaxID
        /\ LET h == GenerateFromPassword(user.Password, salt)
           IN  /\ pc' = [pc EXCEPT ![c] = IF h.err # nil THEN "done" ELSE "insert"]
               /\ req' = [req EXCEPT ![c] =
                            [NoReq EXCEPT !.op = "Create", !.in = user, !.salt = salt,
                                          !.err = h.err,
                                          !.user = IF h.err # nil THEN user
                                                   ELSE SetHash(user, h.hash)]]
               /\ race' = IF h.err = nil /\ Racing(c, user.Email)
                          THEN user.Email ELSE NoEmail
        /\ UNCHANGED <<schema, rows, seq, made, tok>>

\* db.Create: the INSERT is sent.  On a dropped table it fails; else its
\* primary key is evaluated, drawing from the sequence for a zero key
InsertStmt(c) ==
    /\ pc[c] = "insert"
    /\ IF Table \notin schema
       THEN /\ Return(c, ErrNoTable)
            /\ UNCHANGED seq
       ELSE /\ seq' = Nextval(seq, req[c].user)
            /\ pc' = [pc EXCEPT ![c] = "insertrow"]
            /\ req' = [req EXCEPT ![c].write =
                         [i \in {InsertKey(seq, req[c].user)} |-> RowOf(req[c].user)]]
    /\ UNCHANGED <<schema, rows, made, race, tok>>

\* the INSERT checks its primary key first: it waits while an open
\* transaction holds that key, and against a committed row it fails at
\* once; with the key free it waits, under the unique index, while an open
\* transaction holds its email
InsertWaits(c) ==
    \/ DOMAIN req[c].write \cap HeldIDs(c) # {}
    \/ /\ DOMAIN req[c].write \cap DOMAIN rows = {}
       /\ UniqueIndex \in schema
       /\ req[c].user.Email \in HeldEmails(c)

\* db.Create: the row and its index entries go in, or the INSERT fails; on
\* success the key RETURNING id gave is set in the record
InsertRow(c) ==
    /\ pc[c] = "insertrow"
    /\ ~InsertWaits(c)
    /\ LET id == CHOOSE k \in DOMAIN req[c].write : TRUE
           r == SqlInsert(schema, rows, id, req[c].user)
       IN  IF r.err # nil
           THEN Return(c, r.err)
           ELSE /\ pc' = [pc EXCEPT ![c] = "commit"]
                /\ req' = [req EXCEPT ![c].user.ID = id, ![c].write = r.write]
    /\ UNCHANGED <<schema, rows, seq, made, race, tok>>

\* COMMIT of db.Create, db.Save's UPDATE or db.Delete: the rows written are
\* published and the handler returns nil
Commit(c) ==
    /\ pc[c] = "commit"
    /\ rows' = Publish(rows, req[c].write)
    /\ made' = IF req[c].op = "Create"
               THEN [i \in DOMAIN made \cup {req[c].user.ID} |->
                       IF i = req[c].user.ID THEN req[c].in.Password ELSE made[i]]
               ELSE made
    /\ Return(c, nil)
    /\ UNCHANGED <<schema, seq, race, tok>>

\* func (ug *userGorm) ByID(id uint)
DoByID(c, ids) ==
    \E id \in ids :
        /\ Ready(c)
        /\ LET r == ByID(schema, rows, id)
           IN  req' = [req EXCEPT ![c] = [NoReq EXCEPT !.op = "ByID", !.id = id,
                                                       !.out = r.user, !.err = r.err]]
        /\ pc' = [pc EXCEPT ![c] = "done"]
        /\ race' = NoEmail
        /\ UNCHANGED <<schema, rows, seq, made, tok>>

\* func (ug *userGorm) ByEmail(email string)
DoByEmail(c, emails) ==
    \E email \in emails :
        /\ Ready(c)
        /\ LET r == ByEmail(schema, rows, email)
           IN  req' = [req EXCEPT ![c] = [NoReq EXCEPT !.op = "ByEmail",
                                                       !.email = email,
                                                       !.out = r.user, !.err = r.err]]
        /\ pc' = [pc EXCEPT ![c] = "done"]
        /\ race' = NoEmail
        /\ UNCHANGED <<schema, rows, seq, made, tok>>

\* func (us *UserService) Authenticate(email, password string)
DoAuthenticate(c, emails, passwords) ==
    \E email \in emails, password \in passwords :
        /\ Ready(c)
        /\ LET r == Authenticate(schema, rows, email, password)
           IN  req' = [req EXCEPT ![c] = [NoReq EXCEPT !.op = "Authenticate",
                                                       !.email = email,
                                                       !.password = password,
                                                       !.out = r.user, !.err = r.err]]
        /\ pc' = [pc EXCEPT ![c] = "done"]
        /\ race' = NoEmail
        /\ UNCHANGED <<schema, rows, seq, made, tok>>

\* func (ug *userGorm) Update(user *User): db.Save looks at the primary key,
\* a zero one goes to the INSERT of db.Create, another to the UPDATE
CallUpdate(c, users) ==
    \E user \in users :
        /\ Ready(c)
        /\ user.ID = 0 => seq + PendingDraws(c) < MaxID
        /\ pc' = [pc EXCEPT ![c] = IF user.ID = 0 THEN "insert" ELSE "update"]
        /\ req' = [req EXCEPT ![c] = [NoReq EXCEPT !.op = "Update", !.in = user,
                                                   !.user = user]]
        /\ race' = NoEmail
        /\ UNCHANGED <<schema, rows, seq, made, tok>>

\* the UPDATE waits while an open transaction holds the row or, under the
\* unique index, the email it writes
UpdateWaits(c) ==
    /\ req[c].user.ID \in Live(rows)
    /\ \/ req[c].user.ID \in HeldIDs(c)
       \/ UniqueIndex \in schema /\ req[c].user.Email \in HeldEmails(c)

\* db.Save: the UPDATE.  With a row affected its COMMIT follows; with none
\* and no error, db.FirstOrCreate
UpdateStmt(c) ==
    /\ pc[c] = "update"
    /\ IF Table \notin schema
       THEN Return(c, ErrNoTable)
       ELSE /\ ~UpdateWaits(c)
            /\ LET r == SqlUpdate(schema, rows, req[c].user)
               IN  IF r.err # nil
                   THEN Return(c, r.err)
                   ELSE /\ pc' = [pc EXCEPT ![c] = IF r.affected = 0 THEN "select"
                                                  ELSE "commit"]
                        /\ req' = [req EXCEPT ![c].write = r.write]
    /\ UNCHANGED <<schema, rows, seq, made, race, tok>>

\* db.FirstOrCreate: the SELECT by primary key.  A row found is scanned
\* into the record and Save returns nil; with none the INSERT of db.Create
\* follows; another error is returned
SaveSelect(c) ==
    /\ pc[c] = "select"
    /\ LET f == GormFirst(schema, rows, {req[c].user.ID}, req[c].user)
       IN  IF f.err = ErrRecordNotFound
           THEN /\ pc' = [pc EXCEPT ![c] = "insert"]
                /\ UNCHANGED req
           ELSE /\ pc' = [pc EXCEPT ![c] = "done"]
                /\ req' = [req EXCEPT ![c].user = f.user, ![c].err = f.err]
    /\ UNCHANGED <<schema, rows, seq, made, race, tok>>

\* func (ug *userGorm) Delete(id uint) up to db.Delete: the zero identifier
\* returns at once
CallDelete(c, ids) ==
    \E id \in ids :
        /\ Ready(c)
        /\ pc' = [pc EXCEPT ![c] = IF id = 0 THEN "done" ELSE "delete"]
        /\ req' = [req EXCEPT ![c] = [NoReq EXCEPT !.op = "Delete", !.id = id,
                                        !.err = IF id = 0 THEN ErrInvalidID ELSE nil]]
        /\ race' = NoEmail
        /\ UNCHANGED <<schema, rows, seq, made, tok>>

\* db.Delete(&user): the soft-delete UPDATE; it waits while an open
\* transaction holds the row.  With no row affected it returns nil
DeleteStmt(c) ==
    /\ pc[c] = "delete"
    /\ IF Table \notin schema
       THEN Return(c, ErrNoTable)
       ELSE LET w == SqlSoftDelete(rows, req[c].id)
            IN  /\ DOMAIN w \cap HeldIDs(c) = {}
                /\ IF w = NoWrite
                   THEN Return(c, nil)
                   ELSE /\ pc' = [pc EXCEPT ![c] = "commit"]
                        /\ req' = [req EXCEPT ![c].write = w]
    /\ UNCHANGED <<schema, rows, seq, made, race, tok>>

\* no other caller is inside a transaction on the table: DROP TABLE, ALTER
\* TABLE and CREATE INDEX wait for that
TableFree(c) == \A d \in Others(c) : ~InTxn(d)

\* the call is one of Services, which handles User and then Stocklist
OnServices(c) == req[c].op \in {"Services.AutoMigrate", "Services.DestructiveReset"}

\* db.AddError: the first error as it is, a second one joined to it
AddError(err, more) == IF err = nil THEN more ELSE ErrDropNeither

\* func (ug *userGorm) DestructiveReset() up to db.DropTableIfExists
CallDestructiveReset(c) ==
    /\ Ready(c)
    /\ pc' = [pc EXCEPT ![c] = "hastable"]
    /\ req' = [req EXCEPT ![c] = [NoReq EXCEPT !.op = "DestructiveReset"]]
    /\ race' = NoEmail
    /\ UNCHANGED <<schema, rows, seq, made, tok>>

\* func (s *Services) DestructiveReset() up to db.DropTableIfExists
CallServicesDestructiveReset(c) ==
    /\ Ready(c)
    /\ pc' = [pc EXCEPT ![c] = "hastable"]
    /\ req' = [req EXCEPT ![c] = [NoReq EXCEPT !.op = "Services.DestructiveReset"]]
    /\ race' = NoEmail
    /\ UNCHANGED <<schema, rows, seq, made, tok>>

\* DropTableIfExists gave no error: return ug.AutoMigrate() in userGorm,
\* return s.AutoMigrate() in Services; the caller is in that handler now
TailAutoMigrate(c) ==
    /\ pc' = [pc EXCEPT ![c] = "migrate"]
    /\ req' = [req EXCEPT ![c].op = IF OnServices(c) THEN "Services.AutoMigrate"
                                    ELSE "AutoMigrate"]

\* db.DropTableIfExists: the lookup of users; only a table found is dropped.
\* userGorm is then through with it, Services goes on to stocklists
DropHasTable(c) ==
    /\ pc[c] = "hastable"
    /\ IF Table \in schema
       THEN pc' = [pc EXCEPT ![c] = "drop"] /\ UNCHANGED req
       ELSE IF OnServices(c)
       THEN pc' = [pc EXCEPT ![c] = "hasstocklists"] /\ UNCHANGED req
       ELSE TailAutoMigrate(c)
    /\ UNCHANGED <<schema, rows, seq, made, race, tok>>

\* DROP TABLE users: the table goes with its rows, indexes and sequence.  A
\* failure is returned by userGorm.DestructiveReset at once; Services keeps
\* it and goes on to stocklists
DropStmt(c) ==
    /\ pc[c] = "drop"
    /\ IF Table \notin schema
       THEN /\ IF OnServices(c)
               THEN /\ pc' = [pc EXCEPT ![c] = "hasstocklists"]
                    /\ req' = [req EXCEPT ![c].err = ErrDropNoTable]
               ELSE Return(c, ErrDropNoTable)
            /\ UNCHANGED <<schema, rows, seq, made>>
       ELSE /\ TableFree(c)
            /\ schema' = schema \cap {Stocklists}
            /\ rows' = EmptyTable
            /\ seq' = 0
            /\ made' = [i \in {} |-> ""]
            /\ IF OnServices(c)
               THEN pc' = [pc EXCEPT ![c] = "hasstocklists"] /\ UNCHANGED req
               ELSE TailAutoMigrate(c)
    /\ UNCHANGED <<race, tok>>

\* db.DropTableIfExists of Services: the lookup of stocklists; only a table
\* found is dropped.  With an error so far DestructiveReset returns it
DropHasStocklists(c) ==
    /\ pc[c] = "hasstocklists"
    /\ IF Stocklists \in schema
       THEN pc' = [pc EXCEPT ![c] = "dropstocklists"] /\ UNCHANGED req
       ELSE IF req[c].err # nil
       THEN Return(c, req[c].err)
       ELSE TailAutoMigrate(c)
    /\ UNCHANGED <<schema, rows, seq, made, race, tok>>

\* DROP TABLE stocklists; with an error, of this statement or of the one
\* before, Services.DestructiveReset returns it
DropStocklistsStmt(c) ==
    /\ pc[c] = "dropstocklists"
    /\ IF Stocklists \notin schema
       THEN /\ Return(c, AddError(req[c].err, ErrDropNoStocklists))
            /\ UNCHANGED schema
       ELSE /\ schema' = schema \ {Stocklists}
            /\ IF req[c].err # nil
               THEN Return(c, req[c].err)
               ELSE TailAutoMigrate(c)
    /\ UNCHANGED <<rows, seq, made, race, tok>>

\* func (ug *userGorm) AutoMigrate() up to db.AutoMigrate
CallAutoMigrate(c) ==
    /\ Ready(c)
    /\ pc' = [pc EXCEPT ![c] = "migrate"]
    /\ req' = [req EXCEPT ![c] = [NoReq EXCEPT !.op = "AutoMigrate"]]
    /\ race' = NoEmail
    /\ UNCHANGED <<schema, rows, seq, made, tok>>

\* func (s *Services) AutoMigrate() up to db.AutoMigrate
CallServicesAutoMigrate(c) ==
    /\ Ready(c)
    /\ pc' = [pc EXCEPT ![c] = "migrate"]
    /\ req' = [req EXCEPT ![c] = [NoReq EXCEPT !.op = "Services.AutoMigrate"]]
    /\ race' = NoEmail
    /\ UNCHANGED <<schema, rows, seq, made, tok>>

\* the migration of users is over with err: userGorm returns it; Services
\* carries it into the migration of stocklists
Migrated(c, err) ==
    IF OnServices(c)
    THEN /\ pc' = [pc EXCEPT ![c] = "migratestocklists"]
         /\ req' = [req EXCEPT ![c].err = err, ![c].field = 1]
    ELSE Return(c, err)

\* db.AutoMigrate: the table lookup; a missing table is created, the
\* columns of one found are looked up
MigrateHasTable(c) ==
    /\ pc[c] = "migrate"
    /\ pc' = [pc EXCEPT ![c] = IF Table \in schema THEN "hascolumn"
                               ELSE "createtable"]
    /\ UNCHANGED <<schema, rows, seq, made, req, race, tok>>

\* CREATE TABLE users, empty and with a fresh sequence; it fails when the
\* table came to exist meanwhile.  After a failed statement no further
\* statement is sent for users: its migration is over with that error
CreateTableStmt(c) ==
    /\ pc[c] = "createtable"
    /\ IF Table \in schema
       THEN /\ Migrated(c, ErrTableExists)
            /\ UNCHANGED <<schema, rows, seq>>
       ELSE /\ schema' = schema \cup {Table}
            /\ rows' = EmptyTable
            /\ seq' = 0
            /\ pc' = [pc EXCEPT ![c] = "hasindex"]
            /\ UNCHANGED req
    /\ UNCHANGED <<made, race, tok>>

\* the column lookup of one field of User, on a table that was found: a
\* column of a table that exists is found, none is found in a table dropped
\* meanwhile; a column not found is added unless the field is ignored;
\* after the last field the indexes follow
MigrateHasColumn(c) ==
    /\ pc[c] = "hascolumn"
    /\ LET k == req[c].field
       IN  IF Table \notin schema /\ IsNormal(Fields[k])
           THEN /\ pc' = [pc EXCEPT ![c] = "addcolumn"]
                /\ UNCHANGED req
           ELSE /\ pc' = [pc EXCEPT ![c] = IF k = Len(Fields) THEN "hasindex"
                                          ELSE "hascolumn"]
                /\ req' = [req EXCEPT ![c].field = IF k = Len(Fields) THEN 1
                                                   ELSE k + 1]
    /\ UNCHANGED <<schema, rows, seq, made, race, tok>>

\* ALTER TABLE users ADD <column>, sent for a column not found: it fails on
\* the dropped table, and on a table recreated meanwhile, and AutoMigrate
\* returns that error
AddColumnStmt(c) ==
    /\ pc[c] = "addcolumn"
    /\ IF Table \notin schema
       THEN Migrated(c, ErrNoTable)
       ELSE TableFree(c) /\ Migrated(c, ErrColumnExists(Fields[req[c].field]))
    /\ UNCHANGED <<schema, rows, seq, made, race, tok>>

\* the lookup of idx_users_deleted_at: only an index not found is created
MigrateHasIndex(c) ==
    /\ pc[c] = "hasindex"
    /\ pc' = [pc EXCEPT ![c] = IF DeletedAtIndex \in schema THEN "hasunique"
                               ELSE "createindex"]
    /\ UNCHANGED <<schema, rows, seq, made, req, race, tok>>

\* CREATE INDEX idx_users_deleted_at; it fails on a dropped table and on an
\* index that came to exist meanwhile, and AutoMigrate then returns that
\* error without creating the unique index
CreateIndexStmt(c) ==
    /\ pc[c] = "createindex"
    /\ IF Table \notin schema
       THEN Migrated(c, ErrNoTable) /\ UNCHANGED schema
       ELSE /\ TableFree(c)
            /\ IF DeletedAtIndex \in schema
               THEN Migrated(c, ErrIndexExists) /\ UNCHANGED schema
               ELSE /\ schema' = schema \cup {DeletedAtIndex}
                    /\ pc' = [pc EXCEPT ![c] = "hasunique"]
                    /\ UNCHANGED req
    /\ UNCHANGED <<rows, seq, made, race, tok>>

\* the lookup of uix_users_email: only an index not found is created
MigrateHasUnique(c) ==
    /\ pc[c] = "hasunique"
    /\ IF UniqueIndex \in schema
       THEN Migrated(c, nil)
       ELSE /\ pc' = [pc EXCEPT ![c] = "createunique"]
            /\ UNCHANGED req
    /\ UNCHANGED <<schema, rows, seq, made, race, tok>>

\* CREATE UNIQUE INDEX uix_users_email; it fails on a dropped table, on an
\* index that came to exist meanwhile, and on rows that share an email
CreateUniqueStmt(c) ==
    /\ pc[c] = "createunique"
    /\ IF Table \notin schema
       THEN Migrated(c, ErrNoTable) /\ UNCHANGED schema
       ELSE /\ TableFree(c)
            /\ IF UniqueIndex \in schema
               THEN Migrated(c, ErrUniqueExists) /\ UNCHANGED schema
               ELSE IF ~IndexBuildable(rows)
               THEN Migrated(c, ErrCreateIndex) /\ UNCHANGED schema
               ELSE /\ schema' = schema \cup {UniqueIndex}
                    /\ Migrated(c, nil)
    /\ UNCHANGED <<rows, seq, made, race, tok>>

\* db.AutoMigrate of Services, second model: the lookup of stocklists.  A
\* table found is left as it is; a missing one is created, unless an error
\* came with the migration of users: then no statement is sent
MigrateHasStocklists(c) ==
    /\ pc[c] = "migratestocklists"
    /\ IF Stocklists \in schema \/ req[c].err # nil
       THEN Return(c, req[c].err)
       ELSE /\ pc' = [pc EXCEPT ![c] = "createstocklists"]
            /\ UNCHANGED req
    /\ UNCHANGED <<schema, rows, seq, made, race, tok>>

\* CREATE TABLE stocklists; it fails when the table came to exist meanwhile
CreateStocklistsStmt(c) ==
    /\ pc[c] = "createstocklists"
    /\ IF Stocklists \in schema
       THEN Return(c, ErrStocklistsExist) /\ UNCHANGED schema
       ELSE schema' = schema \cup {Stocklists} /\ Return(c, nil)
    /\ UNCHANGED <<rows, seq, made, race, tok>>

-----------------------------------------------------------------------------
(* One caller *)

SoloCallers == {"c1"}

\* records a caller hands to Create: no identifier yet, no hash yet
CreateInputs ==
    [ID : {0}, Name : Names, Email : Emails, Password : Passwords,
     PasswordHash : {NoHash}, DeletedAt : {FALSE}]

\* a record made by hand for identifier id
HandMade(id, email) == [ZeroUser EXCEPT !.ID = id, !.Name = "ann", !.Email = email]

\* the record a caller holds for identifier id: the row as a lookup returned
\* it (for a soft-deleted row, as returned before the Delete), or, for an
\* identifier the table does not hold, a record made by hand
InHand(t, id) ==
    IF id \in DOMAIN t
    THEN [UserOf(id, t[id]) EXCEPT !.DeletedAt = FALSE]
    ELSE HandMade(id, "a@x.io")

\* what the caller changes before Update: the name, the email, the plaintext
\* Password, or the hash
Edits(u) ==
    {[u EXCEPT !.Name = n] : n \in Names}
        \cup {[u EXCEPT !.Email = e] : e \in Emails}
        \cup {[u EXCEPT !.Password = "pw1"], [u EXCEPT !.PasswordHash = NoHash]}

UpdateInputs(t) == UNION {Edits(InHand(t, id)) : id \in IDArgs}

NoToken == [op |-> "none", n |-> 0, read |-> [err |-> "nil", b |-> <<>>],
            token |-> <<>>, err |-> "nil"]

\* the database after Services.AutoMigrate: both tables, users empty and
\* its sequence not yet used; no call yet
InitWith(callers) ==
    /\ schema = FullSchema \cup {Stocklists}
    /\ rows = EmptyTable
    /\ seq = 0
    /\ made = [i \in {} |-> ""]
    /\ pc = [c \in callers |-> "idle"]
    /\ req = [c \in callers |-> NoReq]
    /\ race = NoEmail
    /\ tok = NoToken

Init == InitWith(SoloCallers)

\* with one caller the column lookup never misses a column, so no ALTER
\* TABLE is sent
Next ==
    \E c \in SoloCallers :
        \/ CallCreate(c, CreateInputs, Salts \cup {NoSalt})
        \/ InsertStmt(c)
        \/ InsertRow(c)
        \/ Commit(c)
        \/ DoByID(c, IDArgs)
        \/ DoByEmail(c, Emails)
        \/ DoAuthenticate(c, Emails, Passwords)
        \/ CallUpdate(c, UpdateInputs(rows))
        \/ UpdateStmt(c)
        \/ SaveSelect(c)
        \/ CallDelete(c, IDArgs)
        \/ DeleteStmt(c)
        \/ CallDestructiveReset(c)
        \/ DropHasTable(c)
        \/ DropStmt(c)
        \/ CallAutoMigrate(c)
        \/ MigrateHasTable(c)
        \/ CreateTableStmt(c)
        \/ MigrateHasColumn(c)
        \/ MigrateHasIndex(c)
        \/ CreateIndexStmt(c)
        \/ MigrateHasUnique(c)
        \/ CreateUniqueStmt(c)
        \/ CallServicesDestructiveReset(c)
        \/ DropHasStocklists(c)
        \/ DropStocklistsStmt(c)
        \/ CallServicesAutoMigrate(c)
        \/ MigrateHasStocklists(c)
        \/ CreateStocklistsStmt(c)

Spec == Init /\ [][Next]_vars

-----------------------------------------------------------------------------
(* Two callers.  The inputs are fewer: one name, one password and salt,     *)
(* updates that set the email of a fetched record or hand in a record made *)
(* by hand with an email of its own, deletes of the first identifier.     *)

Callers == {"c1", "c2"}

\* the email an Update sets in a fetched record
EditedEmail == "b@x.io"

\* the email of the records made by hand
HandEmail == "c@x.io"

ConcCreateInputs ==
    [ID : {0}, Name : {"ann"}, Email : Emails, Password : {"pw1"},
     PasswordHash : {NoHash}, DeletedAt : {FALSE}]

\* a record fetched from the table, with its email edited (by the time the
\* statements run the row may have been changed, deleted or dropped), or a
\* record made by hand for an identifier the table does not hold
ConcUpdateInputs(t) ==
    UNION {IF id \in DOMAIN t
           THEN {[InHand(t, id) EXCEPT !.Email = EditedEmail]}
           ELSE {HandMade(id, HandEmail)}
           : id \in IDs}

InitConc == InitWith(Callers)

NextConc ==
    \E c \in Callers :
        \/ CallCreate(c, ConcCreateInputs, {"s1"})
        \/ InsertStmt(c)
        \/ InsertRow(c)
        \/ Commit(c)
        \/ CallUpdate(c, ConcUpdateInputs(rows))
        \/ UpdateStmt(c)
        \/ SaveSelect(c)
        \/ CallDelete(c, {1})
        \/ DeleteStmt(c)
        \/ CallDestructiveReset(c)
        \/ DropHasTable(c)
        \/ DropStmt(c)
        \/ CallAutoMigrate(c)
        \/ MigrateHasTable(c)
        \/ CreateTableStmt(c)
        \/ MigrateHasColumn(c)
        \/ AddColumnStmt(c)
        \/ MigrateHasIndex(c)
        \/ CreateIndexStmt(c)
        \/ MigrateHasUnique(c)
        \/ CreateUniqueStmt(c)
        \/ CallServicesDestructiveReset(c)
        \/ DropHasStocklists(c)
        \/ DropStocklistsStmt(c)
        \/ CallServicesAutoMigrate(c)
        \/ MigrateHasStocklists(c)
        \/ CreateStocklistsStmt(c)

SpecConc == InitConc /\ [][NextConc]_vars

-----------------------------------------------------------------------------
(* The rand package.  A byte is 0..255; a string is the sequence of its     *)
(* characters.  crypto/rand.Read either fills the whole buffer or returns   *)
(* an error, having filled only a prefix of it.                             *)

RememberTokenBytes == 32

\* the byte streams the entropy source delivers: start a, step d
Stream(n, a, d) == [i \in 1..n |-> (a + (i - 1) * d) % 256]

StreamStarts == {0, 1, 62, 63, 127, 128, 250, 251, 254, 255}
StreamSteps == {0, 1, 3, 17, 64, 85, 128, 255}

\* make([]byte, n) after a Read that stopped after k bytes of the stream
ReadInto(n, stream, k) == [i \in 1..n |-> IF i <= k THEN stream[i] ELSE 0]

\* outcomes of rand.Read(b) for len(b) = n
ReadOutcomes(n) ==
    {[err |-> nil, b |-> Stream(n, a, d)] : a \in StreamStarts, d \in StreamSteps}
        \cup {[err |-> ErrEntropy, b |-> ReadInto(n, Stream(n, a, 1), k)] :
                a \in {0, 255}, k \in {0, n \div 2}}

\* base64.URLEncoding: the RFC 4648 URL and filename safe alphabet, padded
URLAlphabet ==
    <<"A", "B", "C", "D", "E", "F", "G", "H", "I", "J", "K", "L", "M",
      "N", "O", "P", "Q", "R", "S", "T", "U", "V", "W", "X", "Y", "Z",
      "a", "b", "c", "d", "e", "f", "g", "h", "i", "j", "k", "l", "m",
      "n", "o", "p", "q", "r", "s", "t", "u", "v", "w", "x", "y", "z",
      "0", "1", "2", "3", "4", "5", "6", "7", "8", "9", "-", "_">>

Pad == "="

\* byte i of b, zero past its end
ByteAt(b, i) == IF i <= Len(b) THEN b[i] ELSE 0

\* the 24-bit group g (from 0) of b
Group(b, g) ==
    ByteAt(b, 3 * g + 1) * 65536 + ByteAt(b, 3 * g + 2) * 256 + ByteAt(b, 3 * g + 3)

\* sextet j (0..3) of a 24-bit group
Sextet(v, j) ==
    IF j = 0 THEN v \div 262144
    ELSE IF j = 1 THEN (v \div 4096) % 64
    ELSE IF j = 2 THEN (v \div 64) % 64
    ELSE v % 64

\* characters of the encoding that carry data: ceil(8 * len / 6)
DataChars(n) == (8 * n + 5) \div 6

\* Encoding.EncodeToString
EncodeWith(alphabet, b) ==
    [k \in 1..(4 * ((Len(b) + 2) \div 3)) |->
        IF k <= DataChars(Len(b))
        THEN alphabet[Sextet(Group(b, (k - 1) \div 4), (k - 1) % 4) + 1]
        ELSE Pad]

EncodeToString(b) == EncodeWith(URLAlphabet, b)

\* Encoding.DecodeString of a well-formed token
CharValue(c) == (CHOOSE i \in 1..64 : URLAlphabet[i] = c) - 1

DataLen(s) == Cardinality({k \in 1..Len(s) : s[k] # Pad})

SextetAt(s, k) == IF k <= DataLen(s) THEN CharValue(s[k]) ELSE 0

Quad(s, g) ==
    SextetAt(s, 4 * g + 1) * 262144 + SextetAt(s, 4 * g + 2) * 4096
        + SextetAt(s, 4 * g + 3) * 64 + SextetAt(s, 4 * g + 4)

DecodeString(s) ==
    [i \in 1..((6 * DataLen(s)) \div 8) |->
        LET v == Quad(s, (i - 1) \div 3)
            j == (i - 1) % 3
        IN  IF j = 0 THEN v \div 65536
            ELSE IF j = 1 THEN (v \div 256) % 256
            ELSE v % 256]

\* Bytes that drops the error of rand.Read
BytesIgnoringErr(n, read) == [b |-> read.b, err |-> nil]

\* func Bytes(n int) ([]byte, error); read is the outcome of rand.Read(b)
Bytes(n, read) ==
    IF read.err # nil
    THEN [b |-> <<>>, err |-> read.err]
    ELSE [b |-> read.b, err |-> nil]

\* func String(n int) (string, error)
String(n, read) ==
    LET r == Bytes(n, read)
    IN  IF r.err # nil
        THEN [s |-> <<>>, err |-> r.err]
        ELSE [s |-> EncodeToString(r.b), err |-> nil]

\* func RememberToken() (string, error)
RememberToken(read) == String(RememberTokenBytes, read)

StringLengths == {0, 1, 2, 3, 4}

DoString ==
    \E n \in StringLengths :
        \E read \in ReadOutcomes(n) :
            /\ LET r == String(n, read)
               IN  tok' = [op |-> "String", n |-> n, read |-> read,
                           token |-> r.s, err |-> r.err]
            /\ UNCHANGED <<schema, rows, seq, made, pc, req, race>>

DoRememberToken ==
    \E read \in ReadOutcomes(RememberTokenBytes) :
        /\ LET r == RememberToken(read)
           IN  tok' = [op |-> "RememberToken", n |-> RememberTokenBytes,
                       read |-> read, token |-> r.s, err |-> r.err]
        /\ UNCHANGED <<schema, rows, seq, made, pc, req, race>>

InitRand == Init

NextRand ==
    \/ DoString
    \/ DoRememberToken

SpecRand == InitRand /\ [][NextRand]_vars

-----------------------------------------------------------------------------
(* Properties of the handlers run by one caller, checked under Spec.  A     *)
(* step that leaves pc at "done" is the return of a call; with one caller   *)
(* the table before that step is the table the call met: only the last     *)
(* statement of a handler other than DestructiveReset writes rows.         *)

\* the live rows that hold an email
LiveWithEmail(t, email) == {i \in Live(t) : t[i].Email = email}

\* every row but id is what it was, and no row came or went
OthersUnchanged(id) ==
    /\ DOMAIN rows' = DOMAIN rows
    /\ \A j \in DOMAIN rows : j # id => rows'[j] = rows[j]

\* c returns from handler op in this step
Returns(c, op) == pc'[c] = "done" /\ req'[c].op = op

\* the row still holds a hash of the password its Create was given
HoldsCreateHash(t, i) == CompareHashAndPassword(t[i].PasswordHash, made[i]) = nil

\* C1 as stated: in every state of the table, Authenticate(email, password)
\* leaves the table alone; with no live user of that email it returns no
\* user and ErrNotFound; for a user made by Create it returns that user's
\* record and no error when password is the one its Create was given, and
\* no user and ErrInvalidPassword when it is another one.
AuthenticateContract ==
    [][\A c \in SoloCallers : Returns(c, "Authenticate") =>
        /\ rows' = rows
        /\ seq' = seq
        /\ LiveWithEmail(rows, req'[c].email) = {} =>
              req'[c].out = NilUser /\ req'[c].err = ErrNotFound
        /\ \A i \in LiveWithEmail(rows, req'[c].email) \cap DOMAIN made :
              IF req'[c].password = made[i]
              THEN req'[c].out = <<UserOf(i, rows[i])>> /\ req'[c].err = nil
              ELSE req'[c].out = NilUser /\ req'[c].err = ErrInvalidPassword]_vars

\* C1 amended: Authenticate(email, password) leaves the table alone; with
\* no live user of that email it returns no user and ErrNotFound; for a
\* user made by Create whose row still holds the hash of its Create
\* password it returns that user's record and no error when password is
\* that password, and no user and ErrInvalidPassword when it is another
\* one; for every other user, whose row holds the empty hash an Update
\* stored, it returns no user and bcrypt's error for a hash too short,
\* whatever the password.
AuthenticateByStoredHash ==
    [][\A c \in SoloCallers : Returns(c, "Authenticate") =>
        /\ rows' = rows
        /\ seq' = seq
        /\ LiveWithEmail(rows, req'[c].email) = {} =>
              req'[c].out = NilUser /\ req'[c].err = ErrNotFound
        /\ \A i \in LiveWithEmail(rows, req'[c].email) :
              IF i \in DOMAIN made /\ HoldsCreateHash(rows, i)
              THEN IF req'[c].password = made[i]
                   THEN req'[c].out = <<UserOf(i, rows[i])>> /\ req'[c].err = nil
                   ELSE req'[c].out = NilUser /\ req'[c].err = ErrInvalidPassword
              ELSE /\ rows[i].PasswordHash = NoHash
                   /\ req'[c].out = NilUser
                   /\ req'[c].err = ErrHashTooShort]_vars

\* C1 happens: a second live user is authenticated with its Create password
AuthenticateSucceeds ==
    /\ pc["c1"] = "done"
    /\ req["c1"].op = "Authenticate"
    /\ req["c1"].err = nil
    /\ req["c1"].out # NilUser
    /\ req["c1"].out[1].ID \in DOMAIN made
    /\ made[req["c1"].out[1].ID] = req["c1"].password
    /\ Cardinality(Live(rows)) = 2

InvalidIDSameError ==
    \A c \in DOMAIN pc :
        /\ (pc[c] = "done" /\ req[c].op = "ByID" /\ req[c].id = 0) =>
              req[c].err = ErrInvalidID /\ req[c].out = NilUser
        /\ (pc[c] = "done" /\ req[c].op = "Delete" /\ req[c].id = 0) =>
              req[c].err = ErrInvalidID

\* C4: after a successful Create, ByEmail of its email returns the record the
\* caller now holds: positive identifier, empty Password, and a non-empty
\* PasswordHash that is the hash of the password given; no row has a
\* Password column.
CreateThenByEmail ==
    [][\A c \in SoloCallers : (Returns(c, "Create") /\ req'[c].err = nil) =>
        LET r == ByEmail(schema', rows', req'[c].in.Email)
        IN  /\ r.err = nil
            /\ r.user = <<req'[c].user>>
            /\ r.user[1].ID > 0
            /\ r.user[1].Password = ""
            /\ r.user[1].PasswordHash # NoHash
            /\ CompareHashAndPassword(r.user[1].PasswordHash,
                                      req'[c].in.Password) = nil
            /\ ~EmailTaken(rows, req'[c].in.Email, 0)
            /\ \A i \in DOMAIN rows' :
                  DOMAIN rows'[i] = {"Name", "Email", "PasswordHash", "DeletedAt"}]_vars

\* C4 happens: a second user was created
SecondUserCreated ==
    /\ pc["c1"] = "done"
    /\ req["c1"].op = "Create"
    /\ req["c1"].err = nil
    /\ req["c1"].user.ID \in Live(rows)
    /\ Cardinality(DOMAIN rows) = 2

\* C5: Update of a record whose non-zero identifier is no live row (never
\* inserted, or deleted) fails with ErrNotFound and leaves the table
\* unchanged: no row is created and none is revived.
UpdateMissingNotFound ==
    [][\A c \in SoloCallers :
        (/\ Returns(c, "Update")
         /\ req'[c].in.ID # 0
         /\ req'[c].in.ID \notin Live(rows)) =>
        req'[c].err = ErrNotFound /\ rows' = rows]_vars

\* C6: Delete(id) with id # 0 returns no error whether or not the row exists;
\* after it a Delete(id) has no row left to write, ByID(id) fails with
\* ErrNotFound, and every other row is unchanged.
DeleteIdempotent ==
    [][\A c \in SoloCallers : (Returns(c, "Delete") /\ req'[c].id # 0) =>
        /\ req'[c].err = nil
        /\ SqlSoftDelete(rows', req'[c].id) = NoWrite
        /\ ByID(schema', rows', req'[c].id) = [user |-> NilUser, err |-> ErrNotFound]
        /\ OthersUnchanged(req'[c].id)
        /\ seq' = seq]_vars

\* C6 happens: a row was deleted while another user is live
DeletedBesideLiveUser ==
    /\ pc["c1"] = "done"
    /\ req["c1"].op = "Delete"
    /\ req["c1"].err = nil
    /\ req["c1"].id \in DOMAIN rows
    /\ rows[req["c1"].id].DeletedAt
    /\ Live(rows) # {}

\* the record ByID(id) returns from the table as it stands
Fetched(id) == ByID(schema, rows, id).user[1]

\* C7: a record fetched by id, edited in its name alone and handed to Update
\* is then fetched by id with the new name and the same identifier, email
\* and password hash; every other row is unchanged.
UpdateNameRoundTrip ==
    [][\A c \in SoloCallers :
        (/\ Returns(c, "Update")
         /\ req'[c].in.ID \in Live(rows)
         /\ req'[c].in = [Fetched(req'[c].in.ID) EXCEPT !.Name = req'[c].in.Name]) =>
        /\ req'[c].err = nil
        /\ ByID(schema', rows', req'[c].in.ID)
              = [user |-> <<[Fetched(req'[c].in.ID) EXCEPT !.Name = req'[c].in.Name]>>,
                 err |-> nil]
        /\ rows'[req'[c].in.ID].PasswordHash = rows[req'[c].in.ID].PasswordHash
        /\ OthersUnchanged(req'[c].in.ID)]_vars

\* C7 happens: beside another live user, the UPDATE of a fetched record has
\* written a new name and nothing else, and its COMMIT is next
RenamedBesideLiveUser ==
    /\ pc["c1"] = "commit"
    /\ req["c1"].op = "Update"
    /\ req["c1"].in.ID \in Live(rows) \cap DOMAIN made
    /\ req["c1"].in.Name # rows[req["c1"].in.ID].Name
    /\ req["c1"].in = [Fetched(req["c1"].in.ID) EXCEPT !.Name = req["c1"].in.Name]
    /\ Cardinality(Live(rows)) = 2

\* C8 as stated: after every successful Create and every successful Update
\* the Password of the caller's record is empty.
PlaintextClearedByCreateAndUpdate ==
    \A c \in DOMAIN pc :
        (pc[c] = "done" /\ req[c].op \in {"Create", "Update"} /\ req[c].err = nil) =>
            req[c].user.Password = ""

\* C8 amended: after a successful Create the Password of the caller's record
\* is empty and the row holds the hash of the password given; a successful
\* Update stores the PasswordHash of the record as given, nothing derived from
\* Password, and leaves Password as the caller set it.
PlaintextClearedByCreateOnly ==
    [][\A c \in SoloCallers :
        (pc'[c] = "done" /\ req'[c].op \in {"Create", "Update"} /\ req'[c].err = nil) =>
        /\ req'[c].user.ID \in DOMAIN rows'
        /\ rows'[req'[c].user.ID] = RowOf(req'[c].user)
        /\ req'[c].op = "Create" =>
              /\ req'[c].user.Password = ""
              /\ CompareHashAndPassword(rows'[req'[c].user.ID].PasswordHash,
                                        req'[c].in.Password) = nil
        /\ req'[c].op = "Update" =>
              /\ req'[c].user.Password = req'[c].in.Password
              /\ rows'[req'[c].user.ID].PasswordHash = req'[c].in.PasswordHash]_vars

\* C8 happens: an Update succeeded on a record whose Password was set
UpdatedWithPlaintextSet ==
    /\ pc["c1"] = "done"
    /\ req["c1"].op = "Update"
    /\ req["c1"].err = nil
    /\ req["c1"].in.Password # ""
    /\ req["c1"].in.ID \in Live(rows) \cap DOMAIN made

-----------------------------------------------------------------------------
(* Properties of the rand package, checked under SpecRand *)

TokenChars == {URLAlphabet[i] : i \in 1..64} \cup {Pad}

\* C9: RememberToken() is String(32): when the entropy source fails it
\* returns the error and the empty token; otherwise it returns no error and
\* the padded URL-safe base64 text of the 32 bytes read, which decodes to
\* exactly those bytes.
RememberTokenContract ==
    tok.op = "RememberToken" =>
        /\ [s |-> tok.token, err |-> tok.err] = String(32, tok.read)
        /\ IF tok.read.err # nil
           THEN tok.token = <<>> /\ tok.err = tok.read.err
           ELSE /\ tok.err = nil
                /\ Len(tok.read.b) = 32
                /\ Len(tok.token) = 44
                /\ \A k \in 1..Len(tok.token) : tok.token[k] \in TokenChars
                /\ DecodeString(tok.token) = tok.read.b

\* C9 happens: a token was minted whose text uses the URL-safe characters
TokenMinted ==
    /\ tok.op = "RememberToken"
    /\ tok.err = nil
    /\ \E k \in 1..Len(tok.token) : tok.token[k] \in {"-", "_"}
    /\ \E k \in 1..32 : tok.read.b[k] # tok.read.b[1]

-----------------------------------------------------------------------------
(* Properties of two callers, checked under SpecConc *)

\* C10: in every state where the unique index on email exists, as it does
\* in every state reached by Create, Update and Delete alone, no two rows
\* hold the same email, and when two Creates of one email that no row held
\* were in flight together and both have returned, exactly one of them
\* succeeded.
EmailUniqueUnderRaces ==
    /\ UniqueIndex \in schema => IndexBuildable(rows)
    /\ (race # NoEmail /\ \A c \in Callers : pc[c] = "done") =>
          Cardinality({c \in Callers : req[c].err = nil}) = 1

====
